---- MODULE Spec2Model ----
(***************************************************************************)
(* Model of visualdialog.DialogBox: the two display calls char_by_char and *)
(* word_by_word, the pagination they perform (textwrap.TextWrapper.wrap    *)
(* followed by _make_chunk), the per-word attribute resolution, and the    *)
(* confirm wait between pages.                                             *)
(*                                                                         *)
(* A text is a sequence of one-character strings.  The surface (the curses *)
(* window) is observed through the sequence of calls it receives, "log".   *)
(***************************************************************************)
EXTENDS Integers, Sequences, FiniteSets, TLC

\* ------------------------------------------------------------------ bounds
MaxLen == 3          \* longest text passed to a display call
MaxWidth == 3        \* largest nb_char_max_line of a box
MaxLines == 2        \* largest nb_lines_max of a box
MaxDiscard == 1      \* most ignored key codes read during one display call

\* ------------------------------------------------------- characters, texts
Alphabet == {"a", ",", " "}

\* string.whitespace as textwrap uses it (the tab is left out: expandtabs)
Whitespace == {" ", "\n", "\r"}

Texts == UNION {[1..n -> Alphabet] : n \in 0..MaxLen}

Last(s) == s[Len(s)]

RECURSIVE Join(_)
\* "".join(chunks)
Join(chunks) ==
    IF chunks = <<>> THEN <<>> ELSE Head(chunks) \o Join(Tail(chunks))

\* chunk.strip() == ''
IsBlank(chunk) == \A i \in 1..Len(chunk) : chunk[i] \in Whitespace

\* TextWrapper._munge_whitespace with replace_whitespace=True
MungeWhitespace(text) ==
    [i \in 1..Len(text) |-> IF text[i] \in Whitespace THEN " " ELSE text[i]]

RECURSIVE SplitChunks(_, _, _)
\* TextWrapper._split for a text without hyphens: the maximal runs of
\* whitespace and the maximal runs of non-whitespace, in order.
SplitChunks(text, cur, acc) ==
    IF text = <<>>
    THEN IF cur = <<>> THEN acc ELSE Append(acc, cur)
    ELSE IF cur = <<>> \/ ((Head(text) \in Whitespace) = (cur[1] \in Whitespace))
         THEN SplitChunks(Tail(text), Append(cur, Head(text)), acc)
         ELSE SplitChunks(Tail(text), <<Head(text)>>, Append(acc, cur))

RECURSIVE FillLineUncountedSpaces(_, _, _, _)
\* mutant: whitespace chunks are not counted in the length of the line
FillLineUncountedSpaces(chunks, cur_line, cur_len, width) ==
    IF chunks # <<>>
       /\ (IsBlank(Head(chunks)) \/ cur_len + Len(Head(chunks)) <= width)
    THEN FillLineUncountedSpaces(Tail(chunks), Append(cur_line, Head(chunks)),
                  IF IsBlank(Head(chunks)) THEN cur_len
                  ELSE cur_len + Len(Head(chunks)), width)
    ELSE [chunks |-> chunks, cur_line |-> cur_line, cur_len |-> cur_len]

RECURSIVE FillLine(_, _, _, _)
\* the inner "while chunks" loop of _wrap_chunks
FillLine(chunks, cur_line, cur_len, width) ==
    IF chunks # <<>> /\ cur_len + Len(Head(chunks)) <= width
    THEN FillLine(Tail(chunks), Append(cur_line, Head(chunks)),
                  cur_len + Len(Head(chunks)), width)
    ELSE [chunks |-> chunks, cur_line |-> cur_line, cur_len |-> cur_len]

\* mutant: break_long_words=False, a long word goes whole on a line of its own
HandleLongWordWhole(chunks, cur_line, cur_len, width) ==
    IF cur_line = <<>>
    THEN [chunks |-> Tail(chunks), cur_line |-> <<Head(chunks)>>,
          cur_len |-> Len(Head(chunks))]
    ELSE [chunks |-> chunks, cur_line |-> cur_line, cur_len |-> cur_len]

\* TextWrapper._handle_long_word with break_long_words=True (the default)
HandleLongWord(chunks, cur_line, cur_len, width) ==
    LET space_left == IF width < 1 THEN 1 ELSE width - cur_len
        chunk == Head(chunks)
    IN  [chunks |-> <<SubSeq(chunk, space_left + 1, Len(chunk))>> \o Tail(chunks),
         cur_line |-> Append(cur_line, SubSeq(chunk, 1, space_left)),
         cur_len |-> cur_len + space_left]

RECURSIVE WrapChunks(_, _, _)
\* TextWrapper._wrap_chunks with drop_whitespace=True, no indent, no max_lines
WrapChunks(chunks, lines, width) ==
    IF chunks = <<>> THEN lines
    ELSE
      LET c1 == IF IsBlank(Head(chunks)) /\ lines # <<>>
                THEN Tail(chunks) ELSE chunks
          f == FillLine(c1, <<>>, 0, width)
          h == IF f.chunks # <<>> /\ Len(Head(f.chunks)) > width
               THEN HandleLongWord(f.chunks, f.cur_line, f.cur_len, width)
               ELSE f
          cl == IF h.cur_line # <<>> /\ IsBlank(Last(h.cur_line))
                THEN SubSeq(h.cur_line, 1, Len(h.cur_line) - 1)
                ELSE h.cur_line
      IN  WrapChunks(h.chunks,
                     IF cl # <<>> THEN Append(lines, Join(cl)) ELSE lines,
                     width)

\* self.text_wrapper.wrap(text)
Wrap(text, width) ==
    WrapChunks(SplitChunks(MungeWhitespace(text), <<>>, <<>>), <<>>, width)

RECURSIVE Chunked(_, _)
Chunked(lines, n) ==
    IF Len(lines) <= n THEN <<lines>>
    ELSE <<SubSeq(lines, 1, n)>> \o Chunked(SubSeq(lines, n + 1, Len(lines)), n)

\* _make_chunk(wrapped_text, self.nb_lines_max): pages of at most n lines in
\* order, the last one possibly shorter; no line at all gives one empty page.
MakeChunk(lines, n) == Chunked(lines, n)

RECURSIVE SplitOn(_, _, _)
\* str.split(sep): cut at every sep, empty pieces kept
SplitOn(line, sep, cur) ==
    IF line = <<>> THEN <<cur>>
    ELSE IF Head(line) = sep
         THEN <<cur>> \o SplitOn(Tail(line), sep, <<>>)
         ELSE SplitOn(Tail(line), sep, Append(cur, Head(line)))

RECURSIVE SplitWs(_, _)
\* str.split(): cut at runs of whitespace, no empty piece
SplitWs(line, cur) ==
    IF line = <<>> THEN (IF cur = <<>> THEN <<>> ELSE <<cur>>)
    ELSE IF Head(line) \in Whitespace
         THEN (IF cur = <<>> THEN <<>> ELSE <<cur>>) \o SplitWs(Tail(line), <<>>)
         ELSE SplitWs(Tail(line), Append(cur, Head(line)))

\* ------------------------------------------------------- curses attributes
\* each attribute is named by the position of its bit in a chtype
A_BOLD == 21
A_BLINK == 19
A_ITALIC == 31

\* curses.color_pair(n): the pair number in the bits 8..15, which no
\* attribute bit position reaches
color_pair(n) == n * 256

\* A style argument is "a single curses text attribute or a tuple": bare
\* tells the two apart (isinstance(v, int)), attrs lists the attributes.
Bare(a) == [bare |-> TRUE, attrs |-> <<a>>]
Tuple(s) == [bare |-> FALSE, attrs |-> s]

Range(s) == {s[i] : i \in 1..Len(s)}

\* ------------------------------------------------------------ call inputs
KEY_SPACE == 32
KEY_ENTER == 10
\* some code that is neither of the two keys
KEY_OTHER == CHOOSE c \in 0..255 : c \notin {KEY_SPACE, KEY_ENTER}
Codes == {KEY_SPACE, KEY_ENTER, KEY_OTHER}

NoWordsAttr == [word \in {} |-> Tuple(<<>>)]

\* the style arguments of a call: the defaults, those of tests/test.py, and
\* the two with a bare attribute in place of a tuple
CallStyles ==
    {[text_attr |-> Tuple(<<>>), words_attr |-> NoWordsAttr,
      colors_pair_nb |-> 0, flash_screen |-> FALSE],
     [text_attr |-> Tuple(<<A_ITALIC, A_BOLD>>),
      words_attr |-> [word \in {<<"a">>} |-> Tuple(<<A_BLINK, color_pair(1)>>)],
      colors_pair_nb |-> 0, flash_screen |-> FALSE],
     [text_attr |-> Bare(A_BOLD),
      words_attr |-> [word \in {<<"a">>} |-> Tuple(<<A_BLINK, color_pair(1)>>)],
      colors_pair_nb |-> 2, flash_screen |-> TRUE],
     [text_attr |-> Tuple(<<A_ITALIC, A_BOLD>>),
      words_attr |-> [word \in {<<"a">>} |-> Bare(A_BLINK)],
      colors_pair_nb |-> 2, flash_screen |-> TRUE]}

CutChars == {" ", ","}

\* word_by_word is called with every style and the default cut_char, and
\* with another cut_char and the default styles
WordStyles ==
    {sc \in CallStyles \X CutChars :
        sc[2] = " " \/ sc[1].words_attr = NoWordsAttr}
RandomDelays == {<<0, 0>>}

\* the default style arguments, and the values of random_delay of the calls
\* whose delays are looked at: none, and a jitter of up to one unit
DefaultStyle ==
    [text_attr |-> Tuple(<<>>), words_attr |-> NoWordsAttr,
     colors_pair_nb |-> 0, flash_screen |-> FALSE]
JitterRanges == {<<0, 0>>, <<0, 1>>}
CHAR_DELAY == 40
WORD_DELAY == 150
DOWNTIME_CHARS == {",", ".", ":", ";", "!", "?"}
DOWNTIME_CHARS_DELAY == 600

\* the constructor arguments: tests/test.py, and a titled box without glyph
Constructions ==
    {[title |-> "", end_indicator |-> "o"],
     [title |-> "Robot", end_indicator |-> ""]}
POS_X == 0
POS_Y == 0
HEIGHT == 40
WIDTH == 6

\* ------------------------------------------------------------------ state
VARIABLES
    self,          \* the DialogBox: geometry, indicator, key codes
    args,          \* the arguments of the display call in progress
    text_attr,     \* local text_attr of the call (rebound when normalised)
    attr,          \* local attr of the call
    wrapped_text,  \* the pages: a sequence of sequences of lines
    p, y, w, x,    \* page, line, word and character being written (from 1)
    offsetting_x,  \* local offsetting_x
    active,        \* attributes currently switched on on the window
    discarded,     \* ignored codes read so far during the call
    pc,            \* position of the call
    log            \* calls received by the window, the clock and the callback

vars == <<self, args, text_attr, attr, wrapped_text, p, y, w, x,
          offsetting_x, active, discarded, pc, log>>

\* one observed call: op, position, text, attributes on, number (code, delay)
\* and, for a write of text, the word of the line the text belongs to
EvWord(op, row, col, s, n, on, word) ==
    [op |-> op, y |-> row, x |-> col, s |-> s, attr |-> on, n |-> n,
     word |-> word]
EvAttr(op, row, col, s, n, on) == EvWord(op, row, col, s, n, on, <<>>)
Ev(op, row, col, s, n) == EvAttr(op, row, col, s, n, active)

NoArgs == [method |-> "none", text |-> <<>>, text_attr |-> Tuple(<<>>),
           colors_pair_nb |-> 0,
           cut_char |-> " ", words_attr |-> NoWordsAttr,
           flash_screen |-> FALSE, delay |-> 0, random_delay |-> <<0, 0>>]

\* BaseTextBox.__init__: the usable text area (both sides positive), the
\* position of the first text cell, the downtime characters and the keys.
BaseTextBox(nb_char_max_line, nb_lines_max, title) ==
    [nb_char_max_line |-> nb_char_max_line,
     nb_lines_max |-> nb_lines_max,
     pos_x |-> POS_X, pos_y |-> POS_Y, height |-> HEIGHT, width |-> WIDTH,
     title |-> title,
     text_pos_x |-> POS_X + 2,
     text_pos_y |-> POS_Y + (IF title # "" THEN 3 ELSE 1),
     downtime_chars |-> DOWNTIME_CHARS,
     downtime_chars_delay |-> DOWNTIME_CHARS_DELAY,
     confirm_dialog_key |-> {KEY_SPACE},
     panic_key |-> {KEY_ENTER}]

\* DialogBox.__init__
NewDialogBox(base, end_indicator) ==
    [nb_char_max_line |-> base.nb_char_max_line,
     nb_lines_max |-> base.nb_lines_max,
     title |-> base.title,
     text_pos_x |-> base.text_pos_x,
     text_pos_y |-> base.text_pos_y,
     downtime_chars |-> base.downtime_chars,
     downtime_chars_delay |-> base.downtime_chars_delay,
     confirm_dialog_key |-> base.confirm_dialog_key,
     panic_key |-> base.panic_key,
     end_indicator_char |-> end_indicator,
     end_indicator_pos_x |-> base.pos_x + base.height - 2,
     end_indicator_pos_y |-> IF base.title # ""
                             THEN base.pos_y + base.width + 1
                             ELSE base.pos_y + base.width - 1]

Init ==
    /\ \E nc \in 1..MaxWidth, nl \in 1..MaxLines, c \in Constructions :
          self = NewDialogBox(BaseTextBox(nc, nl, c.title), c.end_indicator)
    /\ args = NoArgs
    /\ text_attr = Tuple(<<>>)
    /\ attr = Tuple(<<>>)
    /\ wrapped_text = <<>>
    /\ p = 0 /\ y = 0 /\ w = 0 /\ x = 0
    /\ offsetting_x = 0
    /\ active = {}
    /\ discarded = 0
    /\ pc = "idle"
    /\ log = <<>>

\* the values given to confirm_dialog_key: that of tests/test.py and the
\* empty tuple
ConfirmKeys == {{KEY_SPACE}, {}}

\* textbox.confirm_dialog_key = ... : the attribute is assigned on the box
\* once it is constructed, nothing looks at the value
SetConfirmDialogKey ==
    /\ pc = "idle"
    /\ \E keys \in ConfirmKeys :
         /\ keys # self.confirm_dialog_key
         /\ self' = [self EXCEPT !.confirm_dialog_key = keys]
    /\ UNCHANGED <<args, text_attr, attr, wrapped_text, p, y, w, x,
                   offsetting_x, active, discarded, pc, log>>

\* ------------------------------------------------------ the display calls
Page == wrapped_text[p]

\* line.split() in char_by_char, line.split(cut_char) in word_by_word
Words(line) ==
    IF args.method = "char_by_char" THEN SplitWs(line, <<>>)
    ELSE SplitOn(line, args.cut_char, <<>>)

\* mutant: the loop over the lines leaves out the first line of a page
LineFromSecond(page, k) ==
    IF \E j \in (k + 1)..Len(page) : Words(page[j]) # <<>>
    THEN CHOOSE j \in (k + 1)..Len(page) :
            /\ Words(page[j]) # <<>>
            /\ \A i \in (k + 1)..(j - 1) : Words(page[i]) = <<>>
    ELSE 0

\* first line of the page, from line k on, that holds a word (0: none)
LineFrom(page, k) ==
    IF \E j \in k..Len(page) : Words(page[j]) # <<>>
    THEN CHOOSE j \in k..Len(page) :
            /\ Words(page[j]) # <<>>
            /\ \A i \in k..(j - 1) : Words(page[i]) = <<>>
    ELSE 0

\* self.framing_box(win), then curses.flash() when asked
Prologue(flash_screen) ==
    <<EvAttr("framing_box", 0, 0, <<>>, 0, {})>>
    \o (IF flash_screen THEN <<EvAttr("flash", 0, 0, <<>>, 0, {})>> ELSE <<>>)

\* mutant: the two sides of the text area are taken one for the other
PaginateSwapped(text, box) ==
    MakeChunk(Wrap(text, box.nb_lines_max), box.nb_char_max_line)

\* wrapped_text = self.text_wrapper.wrap(text), then
\* wrapped_text = _make_chunk(wrapped_text, self.nb_lines_max)
Paginate(text, box) ==
    MakeChunk(Wrap(text, box.nb_char_max_line), box.nb_lines_max)

\* mutant: a text without any line is taken to have nothing to show
EnterLoopSkipsEmpty(pages) ==
    IF pages = <<>> \/ pages = << <<>> >> THEN "done" ELSE "page"

\* where the call stands once the pages are known: the for loop over them
EnterLoop(pages) == IF pages = <<>> THEN "done" ELSE "page"

\* char_by_char up to the first page, called with one of the given styles
\* and one of the given values of random_delay
CharByCharOn(styles, random_delays) ==
    /\ pc = "idle"
    /\ \E text \in Texts, st \in styles, rd \in random_delays :
         LET pages == Paginate(text, self)
         IN  /\ args' = [method |-> "char_by_char", text |-> text,
                         text_attr |-> st.text_attr,
                         colors_pair_nb |-> st.colors_pair_nb, cut_char |-> " ",
                         words_attr |-> st.words_attr,
                         flash_screen |-> st.flash_screen,
                         delay |-> CHAR_DELAY, random_delay |-> rd]
             /\ text_attr' = st.text_attr
             /\ log' = Prologue(st.flash_screen)
             /\ wrapped_text' = pages
             /\ p' = 1
             /\ pc' = EnterLoop(pages)
    /\ UNCHANGED <<self, attr, y, w, x, offsetting_x, active, discarded>>

CharByChar == CharByCharOn(CallStyles, RandomDelays)

\* char_by_char with the default styles and a jitter
CharByCharTimed == CharByCharOn({DefaultStyle}, JitterRanges)

\* word_by_word up to the first page; attr = (color_pair(...), *text_attr)
\* raises TypeError when text_attr is a bare attribute
WordByWordOn(styles, random_delays) ==
    /\ pc = "idle"
    /\ \E text \in Texts, sc \in styles, rd \in random_delays :
         LET pages == Paginate(text, self)
         IN  /\ args' = [method |-> "word_by_word", text |-> text,
                         text_attr |-> sc[1].text_attr,
                         colors_pair_nb |-> sc[1].colors_pair_nb, cut_char |-> sc[2],
                         words_attr |-> sc[1].words_attr,
                         flash_screen |-> sc[1].flash_screen,
                         delay |-> WORD_DELAY, random_delay |-> rd]
             /\ text_attr' = sc[1].text_attr
             /\ log' = Prologue(sc[1].flash_screen)
             /\ IF sc[1].text_attr.bare
                THEN /\ pc' = "error"
                     /\ UNCHANGED <<attr, wrapped_text, p>>
                ELSE /\ attr' = Tuple(<<color_pair(sc[1].colors_pair_nb)>>
                                     \o sc[1].text_attr.attrs)
                     /\ wrapped_text' = pages
                     /\ p' = 1
                     /\ pc' = EnterLoop(pages)
    /\ UNCHANGED <<self, y, w, x, offsetting_x, active, discarded>>

WordByWord == WordByWordOn(WordStyles, RandomDelays)

\* word_by_word with the default styles and a jitter
WordByWordTimed == WordByWordOn({<<DefaultStyle, " ">>}, JitterRanges)

\* mutant: the frame is drawn first and the clear wipes it
StartPageFrameFirst ==
    /\ pc = "page"
    /\ log' = log \o <<Ev("framing_box", 0, 0, <<>>, 0),
                       Ev("clear", 0, 0, <<>>, 0)>>
    /\ y' = LineFrom(Page, 1)
    /\ w' = 1 /\ x' = 1
    /\ offsetting_x' = 0
    /\ pc' = IF LineFrom(Page, 1) = 0 THEN "indicator" ELSE "unit"
    /\ UNCHANGED <<self, args, text_attr, attr, wrapped_text, p, active,
                   discarded>>

\* mutant: curses.flash() is called in the loop, once for every page
StartPageFlashing ==
    /\ pc = "page"
    /\ log' = log \o <<Ev("clear", 0, 0, <<>>, 0),
                       Ev("framing_box", 0, 0, <<>>, 0)>>
                  \o (IF args.flash_screen
                      THEN <<Ev("flash", 0, 0, <<>>, 0)>> ELSE <<>>)
    /\ y' = LineFrom(Page, 1)
    /\ w' = 1 /\ x' = 1
    /\ offsetting_x' = 0
    /\ pc' = IF LineFrom(Page, 1) = 0 THEN "indicator" ELSE "unit"
    /\ UNCHANGED <<self, args, text_attr, attr, wrapped_text, p, active,
                   discarded>>

\* win.clear(); self.framing_box(win) at the top of the loop over the pages
StartPage ==
    /\ pc = "page"
    /\ log' = log \o <<Ev("clear", 0, 0, <<>>, 0),
                       Ev("framing_box", 0, 0, <<>>, 0)>>
    /\ y' = LineFrom(Page, 1)
    /\ w' = 1 /\ x' = 1
    /\ offsetting_x' = 0
    /\ pc' = IF LineFrom(Page, 1) = 0 THEN "indicator" ELSE "unit"
    /\ UNCHANGED <<self, args, text_attr, attr, wrapped_text, p, active,
                   discarded>>

\* TextAttributes(win, *attr): the attributes are switched on when the block
\* is entered and switched off when it is left
AttrOn(on, attributes) == on \cup Range(attributes)
AttrOff(on, attributes) == on \ Range(attributes)

\* mutant: the entry of a word is added to the default attributes
ResolveCharMerged(word, words_attr, ta, colors_pair_nb) ==
    LET t == IF ta.bare THEN Tuple(ta.attrs) ELSE ta
    IN  IF word \in DOMAIN words_attr
        THEN [attr |-> Tuple(<<color_pair(colors_pair_nb)>> \o t.attrs
                             \o words_attr[word].attrs),
              text_attr |-> t]
        ELSE [attr |-> Tuple(<<color_pair(colors_pair_nb)>> \o t.attrs),
              text_attr |-> t]

\* the attributes of a word in char_by_char, and text_attr as it is rebound
ResolveChar(word, words_attr, ta, colors_pair_nb) ==
    IF word \in DOMAIN words_attr
    THEN [attr |-> IF words_attr[word].bare
                   THEN Tuple(words_attr[word].attrs)
                   ELSE words_attr[word],
          text_attr |-> ta]
    ELSE LET t == IF ta.bare THEN Tuple(ta.attrs) ELSE ta
         IN  [attr |-> Tuple(<<color_pair(colors_pair_nb)>> \o t.attrs),
              text_attr |-> t]

\* the attributes of a word in word_by_word: the isinstance test of the
\* first branch looks at text_attr, the entry itself is taken as it is
ResolveWord(word, words_attr, ta, colors_pair_nb) ==
    LET t == IF ta.bare THEN Tuple(ta.attrs) ELSE ta
    IN  IF word \in DOMAIN words_attr
        THEN [attr |-> words_attr[word], text_attr |-> t]
        ELSE [attr |-> Tuple(<<color_pair(colors_pair_nb)>> \o t.attrs),
              text_attr |-> t]

\* mutant: the delay of a downtime character is added to the delay
CharDelayAdded(char) ==
    IF char \in self.downtime_chars
    THEN args.delay + self.downtime_chars_delay
    ELSE args.delay

\* the delay slept after a character in char_by_char, jitter left out
CharDelay(char) ==
    IF char \in self.downtime_chars THEN self.downtime_chars_delay
    ELSE args.delay

\* random.uniform(*random_delay), in the unit of the delays
Jitter(random_delay) == random_delay[1]..random_delay[2]

\* mutant: the column of the space between two words is not counted
AfterWordNoGap ==
    IF w < Len(Words(Page[y]))
    THEN /\ w' = w + 1
         /\ offsetting_x' = offsetting_x + Len(Words(Page[y])[w])
         /\ UNCHANGED y
         /\ pc' = "unit"
    ELSE /\ w' = 1
         /\ offsetting_x' = 0
         /\ y' = LineFrom(Page, y + 1)
         /\ pc' = IF LineFrom(Page, y + 1) = 0 THEN "indicator" ELSE "unit"

\* the loops over the lines and the words move on after word w of line y
AfterWord ==
    IF w < Len(Words(Page[y]))
    THEN /\ w' = w + 1
         /\ offsetting_x' = offsetting_x + Len(Words(Page[y])[w]) + 1
         /\ UNCHANGED y
         /\ pc' = "unit"
    ELSE /\ w' = 1
         /\ offsetting_x' = 0
         /\ y' = LineFrom(Page, y + 1)
         /\ pc' = IF LineFrom(Page, y + 1) = 0 THEN "indicator" ELSE "unit"

\* mutant: the callback is skipped after a downtime character
CharCallbackSkipsDowntime(on) ==
    IF Words(Page[y])[w][x] \in self.downtime_chars THEN <<>>
    ELSE <<EvAttr("callback", 0, 0, <<>>, 0, on)>>

\* the callback calls made after a character of char_by_char is written
CharCallback(on) == <<EvAttr("callback", 0, 0, <<>>, 0, on)>>

\* char_by_char: one turn of the loop over the characters of a word, with
\* the attribute resolution before the first and the pause after the last
WriteChar ==
    /\ pc = "unit"
    /\ args.method = "char_by_char"
    /\ LET word == Words(Page[y])[w]
           char == word[x]
           r == IF x = 1
                THEN ResolveChar(word, args.words_attr, text_attr,
                                 args.colors_pair_nb)
                ELSE [attr |-> attr, text_attr |-> text_attr]
           on == IF x = 1 THEN AttrOn(active, r.attr.attrs) ELSE active
       IN  /\ attr' = r.attr
           /\ text_attr' = r.text_attr
           /\ \E j \in Jitter(args.random_delay) :
                log' = log
                    \o <<EvWord("addstr", self.text_pos_y + (y - 1),
                                self.text_pos_x + (x - 1) + offsetting_x,
                                <<char>>, 0, on, word),
                         EvAttr("sleep", 0, 0, <<>>, CharDelay(char) + j, on)>>
                    \o CharCallback(on)
                    \o (IF x = Len(word)
                        THEN <<EvAttr("sleep", 0, 0, <<>>, args.delay, on)>>
                        ELSE <<>>)
           /\ IF x < Len(word)
              THEN /\ x' = x + 1
                   /\ active' = on
                   /\ UNCHANGED <<y, w, offsetting_x, pc>>
              ELSE /\ x' = 1
                   /\ active' = AttrOff(on, r.attr.attrs)
                   /\ AfterWord
    /\ UNCHANGED <<self, args, wrapped_text, p, discarded>>

\* mutant: a word that ends in a downtime character gets its delay
WordDelayDowntime(word) ==
    IF word # <<>> /\ Last(word) \in self.downtime_chars
    THEN self.downtime_chars_delay
    ELSE args.delay

\* the delay slept after a word in word_by_word, jitter left out
WordDelay(word) == args.delay

\* the callback calls made in word_by_word once word w of a line is written
WordCallback(nwords) ==
    IF w = nwords THEN <<EvAttr("callback", 0, 0, <<>>, 0, {})>> ELSE <<>>

\* word_by_word: one turn of the loop over the words of a line;
\* TextAttributes(win, *attr) raises TypeError when attr is a bare attribute
WriteWord ==
    /\ pc = "unit"
    /\ args.method = "word_by_word"
    /\ LET word == Words(Page[y])[w]
           r == ResolveWord(word, args.words_attr, text_attr,
                            args.colors_pair_nb)
           on == AttrOn(active, r.attr.attrs)
       IN  /\ attr' = r.attr
           /\ text_attr' = r.text_attr
           /\ IF r.attr.bare
              THEN /\ pc' = "error"
                   /\ UNCHANGED <<log, y, w, offsetting_x>>
              ELSE /\ \E j \in Jitter(args.random_delay) :
                        log' = log
                            \o <<EvWord("addstr", self.text_pos_y + (y - 1),
                                        self.text_pos_x + offsetting_x,
                                        word, 0, on, word),
                                 EvAttr("sleep", 0, 0, <<>>,
                                        WordDelay(word) + j,
                                        AttrOff(on, r.attr.attrs))>>
                            \o WordCallback(Len(Words(Page[y])))
                   /\ AfterWord
    /\ UNCHANGED <<self, args, wrapped_text, p, x, active, discarded>>

\* mutant: the end indicator is drawn and the loop goes on without getkey
DisplayEndIndicatorNoWait ==
    /\ pc = "indicator"
    /\ log' = log \o
         (IF self.end_indicator_char # ""
          THEN <<EvAttr("addch", self.end_indicator_pos_y,
                        self.end_indicator_pos_x,
                        <<self.end_indicator_char>>, 0,
                        AttrOn(active, <<A_BOLD, A_BLINK>>))>>
          ELSE <<>>)
    /\ pc' = IF p < Len(wrapped_text) THEN "page" ELSE "done"
    /\ p' = IF p < Len(wrapped_text) THEN p + 1 ELSE p
    /\ UNCHANGED <<self, args, text_attr, attr, wrapped_text, y, w, x,
                   offsetting_x, active, discarded>>

\* self._display_end_indicator(win), then the call enters self.getkey(win)
DisplayEndIndicator ==
    /\ pc = "indicator"
    /\ log' = log \o
         (IF self.end_indicator_char # ""
          THEN <<EvAttr("addch", self.end_indicator_pos_y,
                        self.end_indicator_pos_x,
                        <<self.end_indicator_char>>, 0,
                        AttrOn(active, <<A_BOLD, A_BLINK>>))>>
          ELSE <<>>)
    /\ pc' = "getkey"
    /\ UNCHANGED <<self, args, text_attr, attr, wrapped_text, p, y, w, x,
                   offsetting_x, active, discarded>>

\* the outcome of one code read by getkey: an interrupt code ends the wait
\* as Interrupted, an accepted code as Confirmed, any other code is dropped
KeyOutcome(code) ==
    IF code \in self.panic_key THEN "Interrupted"
    ELSE IF code \in self.confirm_dialog_key THEN "Confirmed"
    ELSE "Waiting"

\* mutant: the interrupt is swallowed and the loop goes on to the next page
AfterGetkeySwallow(outcome) ==
    /\ pc' = IF p < Len(wrapped_text) THEN "page" ELSE "done"
    /\ p' = IF p < Len(wrapped_text) THEN p + 1 ELSE p

\* what the loop over the pages does when getkey ends: the exception of an
\* interrupt is not caught and leaves the call at once, a normal return goes
\* on to the next page if there is one
AfterGetkey(outcome) ==
    IF outcome = "Interrupted"
    THEN /\ pc' = "interrupted"
         /\ UNCHANGED p
    ELSE /\ pc' = IF p < Len(wrapped_text) THEN "page" ELSE "done"
         /\ p' = IF p < Len(wrapped_text) THEN p + 1 ELSE p

\* self.getkey(win): one code read from the window
GetKey ==
    /\ pc = "getkey"
    /\ \E code \in Codes :
         /\ log' = Append(log, Ev("getch", 0, 0, <<>>, code))
         /\ IF KeyOutcome(code) = "Waiting"
            THEN /\ discarded < MaxDiscard
                 /\ discarded' = discarded + 1
                 /\ UNCHANGED <<pc, p>>
            ELSE /\ UNCHANGED discarded
                 /\ AfterGetkey(KeyOutcome(code))
    /\ UNCHANGED <<self, args, text_attr, attr, wrapped_text, y, w, x,
                   offsetting_x, active>>

\* mutant: the box wipes the window when its context is left
ExitClears ==
    /\ pc = "done"
    /\ pc' = "exited"
    /\ log' = Append(log, Ev("clear", 0, 0, <<>>, 0))
    /\ UNCHANGED <<self, args, text_attr, attr, wrapped_text, p, y, w, x,
                   offsetting_x, active, discarded>>

\* __exit__ once the call made in the context of the box has returned: the
\* body of the method is empty
Exit ==
    /\ pc = "done"
    /\ pc' = "exited"
    /\ UNCHANGED <<self, args, text_attr, attr, wrapped_text, p, y, w, x,
                   offsetting_x, active, discarded, log>>

Next ==
    \/ CharByChar
    \/ WordByWord
    \/ StartPage
    \/ WriteChar
    \/ WriteWord
    \/ DisplayEndIndicator
    \/ GetKey
    \/ Exit

Spec == Init /\ [][Next]_vars

\* the steps of a call between its start and its waits: the body of the
\* loop over the pages runs on, every sleep comes to its end
Reveal ==
    \/ StartPage
    \/ WriteChar
    \/ WriteWord
    \/ DisplayEndIndicator

\* a wait ends on an accepted code
Confirm == GetKey /\ pc' \in {"page", "done"}

\* the calls when the program runs on and every wait gets an accepted code
\* in the end, unless an interrupt code comes first
SpecFair == Spec /\ WF_vars(Reveal) /\ WF_vars(Confirm)

\* the calls on a box whose confirm_dialog_key was assigned any of the values
NextConfigure ==
    \/ SetConfirmDialogKey
    \/ Next

SpecConfigure == Init /\ [][NextConfigure]_vars

\* the calls with a jitter, for what holds of the delays
NextTimed ==
    \/ CharByCharTimed
    \/ WordByWordTimed
    \/ StartPage
    \/ WriteChar
    \/ WriteWord
    \/ DisplayEndIndicator
    \/ GetKey
    \/ Exit

SpecTimed == Init /\ [][NextTimed]_vars

\* the calls up to the pagination of their text, for what holds of the pages
NextPaginate ==
    \/ CharByChar
    \/ WordByWord

SpecPaginate == Init /\ [][NextPaginate]_vars

\* ------------------------------------------------------------- the claims
Ops(op) == {i \in 1..Len(log) : log[i].op = op}
Count(op) == Cardinality(Ops(op))
Called == args.method # "none"
Accepted(i) == log[i].n \in self.confirm_dialog_key
Interrupting(i) == log[i].n \in self.panic_key

Ignored(i) == ~Accepted(i) /\ ~Interrupting(i)

\* C1: every clear of a page after the first directly follows the read of an
\* accepted code; a read that follows another read follows an ignored code
\* (neither accepted nor interrupting), and an ignored code is followed by
\* another read or leaves the call waiting, so that the run of reads before
\* the clear holds ignored codes and then the accepted one; the run starts
\* right after the end indicator of the previous page when the box has one;
\* and anything else that follows a read is that clear after an accepted code.
C1_ConfirmGatesNextPage ==
    LET clears == Ops("clear")
        reads == Ops("getch")
    IN  /\ \A i \in clears :
             (\E k \in clears : k < i) =>
                log[i - 1].op = "getch" /\ Accepted(i - 1) /\ ~Interrupting(i - 1)
        /\ \A g \in reads :
             /\ IF g = Len(log) THEN Ignored(g) => pc = "getkey"
                ELSE IF log[g + 1].op = "getch" THEN Ignored(g)
                ELSE /\ Accepted(g) /\ ~Interrupting(g)
                     /\ log[g + 1].op = "clear"
             /\ g > 1 /\ log[g - 1].op \notin {"clear", "flash"}
             /\ (self.end_indicator_char # "" /\ log[g - 1].op # "getch")
                   => log[g - 1].op = "addch"

\* a second page has been started after an ignored code and an accepted one
C1_Witness ==
    \E i \in Ops("clear") :
       /\ i > 3
       /\ log[i - 1].op = "getch" /\ Accepted(i - 1)
       /\ log[i - 2].op = "getch" /\ ~Accepted(i - 2) /\ ~Interrupting(i - 2)
       /\ \E k \in Ops("addstr") : k > i

FirstRead == CHOOSE i \in Ops("getch") : \A k \in Ops("getch") : i <= k

\* C2: when the first code read during a call on a text of two pages or more
\* is an interrupt code, the call has ended as interrupted with that read:
\* nothing was cleared, framed, written or called back after it, and only
\* the first page was ever cleared.
C2_InterruptShortCircuit ==
    (/\ Len(wrapped_text) >= 2
     /\ Ops("getch") # {}
     /\ Interrupting(FirstRead))
    => /\ pc = "interrupted"
       /\ Len(log) = FirstRead
       /\ Count("clear") = 1
       /\ p = 1

\* a call on a text of two pages whose first code read was an interrupt code
C2_Witness ==
    /\ Len(wrapped_text) >= 2
    /\ Ops("getch") # {}
    /\ Interrupting(FirstRead)
    /\ Count("addstr") >= 1

Writes == SelectSeq(log, LAMBDA e : e.op = "addstr")
Callbacks == SelectSeq(log, LAMBDA e : e.op = "callback")
WritesAndCallbacks == SelectSeq(log, LAMBDA e : e.op \in {"addstr", "callback"})

RECURSIVE Written(_)
\* the characters written as text, in the order of the writes
Written(writes) ==
    IF writes = <<>> THEN <<>> ELSE Head(writes).s \o Written(Tail(writes))

NonWhitespace(text) == SelectSeq(text, LAMBDA c : c \notin Whitespace)

IsPrefix(s, t) == Len(s) <= Len(t) /\ SubSeq(t, 1, Len(s)) = s

\* C3 (as claimed): in word_by_word on lines of space-separated words, none
\* of them empty, the callback has been invoked once for each word written
\* when a page is finished, so that a line of N words gives N invocations.
C3_CallbackPerWord ==
    (/\ args.method = "word_by_word" /\ args.cut_char = " "
     /\ pc \in {"indicator", "getkey", "done"}
     /\ \A i \in Ops("addstr") : log[i].s # <<>>)
    => Len(Callbacks) = Count("addstr")

\* C4: in char_by_char writes and callback invocations alternate, a write
\* first, so the k-th invocation lies between the k-th and the (k+1)-th
\* write; every write is one non-whitespace character, the characters written
\* are the first non-whitespace characters of the text in their order, and
\* when the call is done they are all of them.
C4_CallbackPerChar ==
    args.method = "char_by_char" =>
      /\ \A i \in 1..Len(WritesAndCallbacks) :
            WritesAndCallbacks[i].op = (IF i % 2 = 1 THEN "addstr" ELSE "callback")
      /\ \A i \in 1..Len(Writes) :
            Len(Writes[i].s) = 1 /\ Writes[i].s[1] \notin Whitespace
      /\ IsPrefix(Written(Writes), NonWhitespace(args.text))
      /\ pc # "unit" => Len(Callbacks) = Len(Writes)
      /\ pc = "done" => Len(Callbacks) = Len(NonWhitespace(args.text))

\* char_by_char is done with a text of two pages that holds whitespace
C4_Witness ==
    /\ args.method = "char_by_char"
    /\ pc = "done"
    /\ Len(wrapped_text) >= 2
    /\ Len(Callbacks) >= 2
    /\ Len(NonWhitespace(args.text)) < Len(args.text)

IsKey(word) == word \in DOMAIN args.words_attr

\* C5: whenever text is written, the attributes switched on are those of the
\* entry of words_attr for the word written when the word is a key, and are
\* otherwise the colour pair of colors_pair_nb with the attributes of
\* text_attr.
C5_OverridePrecedence ==
    \A i \in Ops("addstr") :
       log[i].attr =
          IF IsKey(log[i].word)
          THEN Range(args.words_attr[log[i].word].attrs)
          ELSE {color_pair(args.colors_pair_nb)} \cup Range(args.text_attr.attrs)

\* both modes: a key and another word were written, with entry and default
\* attributes that differ
C5_Witness ==
    /\ \E i, j \in Ops("addstr") : IsKey(log[i].word) /\ ~IsKey(log[j].word)
    /\ args.text_attr.attrs # <<>>
    /\ pc = "done"
    /\ args.method = "word_by_word"

\* C6 (as claimed): a call never fails because an attribute was given bare.
C6_BareStyleAccepted ==
    pc # "error"

\* C7: a call on the empty text has one page, without a line; when it is done
\* the window was cleared once and framed for the page, nothing was written
\* but the end indicator of a box that has one, and the one accepted code
\* read is the last thing that happened.
C7_EmptyTextOnePage ==
    (Called /\ args.text = <<>> /\ pc # "error") =>
       /\ wrapped_text = << <<>> >>
       /\ pc # "unit"
       /\ pc = "done" =>
            /\ Count("clear") = 1
            /\ Count("framing_box") = 2
            /\ Count("addstr") = 0 /\ Count("callback") = 0
            /\ Count("addch") = (IF self.end_indicator_char # "" THEN 1 ELSE 0)
            /\ Cardinality({i \in Ops("getch") : Accepted(i)}) = 1
            /\ Accepted(Len(log)) /\ log[Len(log)].op = "getch"

\* a call on the empty text is done
C7_Witness ==
    Called /\ args.text = <<>> /\ pc = "done" /\ Count("getch") >= 1

Paged == Called /\ pc # "error"
Lines == Join(wrapped_text)

RECURSIVE WordsOf(_)
\* the whitespace-delimited words of the lines, in order
WordsOf(lines) ==
    IF lines = <<>> THEN <<>>
    ELSE SplitWs(Head(lines), <<>>) \o WordsOf(Tail(lines))

TextWords == SplitWs(args.text, <<>>)
Fits(word) == Len(word) <= self.nb_char_max_line

\* C8 (as claimed): every whitespace-delimited word of the text is, whole, a
\* word of one of the lines.
C8_NeverSplitsWord ==
    Paged => \A i \in 1..Len(TextWords) : TextWords[i] \in Range(WordsOf(Lines))

\* C8 (amended): no line is wider than nb_char_max_line; every word of the
\* text that fits in that width is, whole, a word of one of the lines; and
\* when all the words fit, the words of the lines are the words of the text.
C8_SplitsOnlyLongWords ==
    Paged =>
       /\ \A i \in 1..Len(Lines) : Len(Lines[i]) <= self.nb_char_max_line
       /\ \A i \in 1..Len(TextWords) :
            Fits(TextWords[i]) => TextWords[i] \in Range(WordsOf(Lines))
       /\ (\A i \in 1..Len(TextWords) : Fits(TextWords[i]))
            => WordsOf(Lines) = TextWords

\* a text with whitespace and a word that does not fit was paginated, and
\* the long word was cut
C8_Witness ==
    /\ Paged
    /\ \E j \in 1..Len(TextWords) : ~Fits(TextWords[j])
    /\ Len(NonWhitespace(args.text)) < Len(args.text)
    /\ Len(WordsOf(Lines)) > Len(TextWords)

PagesBounded ==
    /\ \A k \in 1..Len(wrapped_text) :
          Len(wrapped_text[k]) <= self.nb_lines_max
    /\ \A k \in 1..(Len(wrapped_text) - 1) :
          Len(wrapped_text[k]) = self.nb_lines_max
    /\ Lines = Wrap(args.text, self.nb_char_max_line)

\* C9 (as claimed): every page holds at most nb_lines_max lines, every page
\* but the last exactly that many, the lines of the pages in order are the
\* wrapped lines, and no page of a non-empty text is empty.
C9_PagesWellFormed ==
    Paged =>
       /\ PagesBounded
       /\ args.text # <<>> =>
            \A k \in 1..Len(wrapped_text) : wrapped_text[k] # <<>>

\* C9 (amended): the same, with no page empty for a text that holds at least
\* one non-whitespace character.
C9_PagesWellFormedNonBlank ==
    Paged =>
       /\ PagesBounded
       /\ NonWhitespace(args.text) # <<>> =>
            \A k \in 1..Len(wrapped_text) : wrapped_text[k] # <<>>

\* a text was paginated into several pages, the last one shorter
C9_Witness ==
    /\ Paged
    /\ Len(wrapped_text) >= 2
    /\ Len(Last(wrapped_text)) < self.nb_lines_max

\* C10 (as claimed): when a display call is done, the characters it wrote as
\* text are, in order, the non-whitespace characters of its text.
C10_Coverage ==
    pc = "done" => Written(Writes) = NonWhitespace(args.text)

SplitsOnWhitespace ==
    args.method = "char_by_char" \/ args.cut_char \in Whitespace

\* C10 (amended): in char_by_char, and in word_by_word when cut_char is the
\* space, the characters written as text are at any time the first
\* non-whitespace characters of the text in their order, and all of them
\* when the call is done.
C10_CoverageSplittingOnSpace ==
    (Called /\ SplitsOnWhitespace) =>
       /\ IsPrefix(Written(Writes), NonWhitespace(args.text))
       /\ pc = "done" => Written(Writes) = NonWhitespace(args.text)

\* word_by_word on spaces is done with a text of several pages in which a
\* word was cut
C10_Witness ==
    /\ args.method = "word_by_word" /\ args.cut_char = " "
    /\ pc = "done"
    /\ Len(wrapped_text) >= 2
    /\ Len(WordsOf(Lines)) > Len(TextWords)

RECURSIVE SumLen(_)
\* sum(len(word) + 1 for word in words)
SumLen(words) ==
    IF words = <<>> THEN 0 ELSE Len(Head(words)) + 1 + SumLen(Tail(words))

\* the columns a line takes: its words with one column between two of them
Columns(line) == SumLen(SplitWs(line, <<>>)) - 1

\* C11: for every line of every page, the lengths of its words plus one
\* column between consecutive words come to at most nb_char_max_line, unless
\* the line is a single word longer than nb_char_max_line.
C11_WidthBound ==
    Paged =>
       \A i \in 1..Len(Lines) :
          \/ Columns(Lines[i]) <= self.nb_char_max_line
          \/ /\ Len(SplitWs(Lines[i], <<>>)) = 1
             /\ Len(SplitWs(Lines[i], <<>>)[1]) > self.nb_char_max_line

\* a text was paginated into a line of two words that takes the whole width
C11_Witness ==
    /\ Paged
    /\ \E i \in 1..Len(Lines) :
          /\ Len(SplitWs(Lines[i], <<>>)) >= 2
          /\ Columns(Lines[i]) = self.nb_char_max_line

\* the state of the session: the call has not begun, a page is being shown,
\* the call waits in getkey, the call has ended (three ways)
State ==
    CASE pc = "idle" -> "Idle"
      [] pc \in {"page", "unit", "indicator"} -> "Revealing"
      [] pc = "getkey" -> "AwaitingConfirm"
      [] pc = "interrupted" -> "Interrupted"
      [] pc \in {"done", "exited"} -> "Done"
      [] OTHER -> "Failed"

Transitions ==
    {<<"Idle", "Revealing">>, <<"Revealing", "AwaitingConfirm">>,
     <<"AwaitingConfirm", "Revealing">>, <<"AwaitingConfirm", "Interrupted">>,
     <<"AwaitingConfirm", "Done">>}

LastClear == CHOOSE i \in Ops("clear") : \A k \in Ops("clear") : k <= i

\* the text written since the window was last cleared
WrittenOnPage ==
    Written(SelectSeq(SubSeq(log, LastClear, Len(log)),
                      LAMBDA e : e.op = "addstr"))

RECURSIVE PageText(_)
\* the words of the lines of a page, one after the other
PageText(page) ==
    IF page = <<>> THEN <<>>
    ELSE Join(Words(Head(page))) \o PageText(Tail(page))

\* C12 (as claimed): the state of the session changes only along Idle ->
\* Revealing -> AwaitingConfirm -> {Revealing, Interrupted, Done}; the page
\* shown changes only from the confirm wait, to the next page; the wait is
\* entered with the whole page written; and the call becomes done only from
\* the wait of the last page, on the read of an accepted code.
C12_SessionTransitions ==
    [][/\ State' # State => <<State, State'>> \in Transitions
       /\ (p' # p /\ pc # "idle") => (pc = "getkey" /\ p' = p + 1)
       /\ (pc # "getkey" /\ pc' = "getkey") =>
             WrittenOnPage' = PageText(Page)
       /\ (pc # "done" /\ pc' = "done") =>
             /\ pc = "getkey" /\ p = Len(wrapped_text)
             /\ log'[Len(log')].op = "getch"
             /\ log'[Len(log')].n \in self.confirm_dialog_key]_vars

\* the attributes a word is written with (those C5 gives it)
OwnAttrs(word) ==
    IF IsKey(word) THEN Range(args.words_attr[word].attrs)
    ELSE {color_pair(args.colors_pair_nb)} \cup Range(args.text_attr.attrs)

\* the attributes that show: colour pair 0 is the default rendition
Showing(on) == on \ {color_pair(0)}

\* C13 (as claimed): the attributes of a unit are on only for the writes of
\* that unit: a word is written with its own attributes and no other, the
\* end indicator with its own two, and a clear, a frame draw or an
\* invocation of the callback (which may write to the window) finds no
\* attribute switched on.
C13_StyleScoped ==
    \A i \in 1..Len(log) :
       /\ log[i].op = "addstr" => log[i].attr = OwnAttrs(log[i].word)
       /\ log[i].op = "addch" => log[i].attr = {A_BOLD, A_BLINK}
       /\ log[i].op \in {"clear", "framing_box", "callback"}
             => Showing(log[i].attr) = {}

C15_FlashOnce ==
    Called =>
       /\ Count("flash") = (IF args.flash_screen THEN 1 ELSE 0)
       /\ \A i \in Ops("flash") :
             \A k \in Ops("clear") \cup Ops("addstr") \cup Ops("addch") : i < k

\* a call with flash_screen is done with two pages or more, text written
C15_Witness ==
    /\ args.flash_screen
    /\ Count("flash") = 1
    /\ pc = "done"
    /\ Len(wrapped_text) >= 2
    /\ Count("addstr") >= 2

\* C16 (as claimed): a display call only ever runs on a box whose text area
\* has a positive width and a positive height and whose set of accepted
\* codes is not empty.
C16_ConfiguredBeforeDisplay ==
    Called =>
       /\ self.nb_char_max_line > 0
       /\ self.nb_lines_max > 0
       /\ self.confirm_dialog_key # {}

\* what the window receives: draws, clears, writes and reads
Surface ==
    SelectSeq(log, LAMBDA e :
        e.op \in {"framing_box", "clear", "addstr", "addch", "getch"})

RECURSIVE TextOfPages(_)
\* the words of the pages, one after the other
TextOfPages(pages) ==
    IF pages = <<>> THEN <<>>
    ELSE PageText(Head(pages)) \o TextOfPages(Tail(pages))

\* the pages whose reveal has come to its end
Revealed ==
    IF pc \in {"idle", "error"} THEN 0
    ELSE IF pc \in {"page", "unit", "indicator"} THEN p - 1
    ELSE p

\* C17: the window receives a frame draw first and a clear second; any
\* other clear comes right after a read; a clear is followed by a frame
\* draw, the only one of its page; text is written after the frame draw of
\* its page or after text; the end indicator comes after the frame draw or
\* the text and before a read; a read comes after the end indicator of a box
\* that has one (after the frame draw or the text otherwise) or after
\* another read.  The text written is the start of the words of the pages in
\* page, line and word order, and whenever the last thing received is an
\* end indicator or a read, it is all the words of the pages shown so far.
C17_PageEventOrder ==
    LET s == Surface
        glyph == self.end_indicator_char # ""
    IN  /\ Called => s[1].op = "framing_box"
        /\ \A i \in 2..Len(s) :
              /\ s[i].op = "clear" =>
                    (IF i = 2 THEN s[1].op = "framing_box"
                     ELSE s[i - 1].op = "getch")
              /\ s[i].op = "framing_box" => s[i - 1].op = "clear"
              /\ s[i - 1].op = "clear" => s[i].op = "framing_box"
              /\ s[i].op = "addstr" => s[i - 1].op \in {"framing_box", "addstr"}
              /\ s[i].op = "addch" => s[i - 1].op \in {"framing_box", "addstr"}
              /\ s[i - 1].op = "addch" => s[i].op = "getch"
              /\ s[i].op = "getch" =>
                    s[i - 1].op \in (IF glyph THEN {"addch", "getch"}
                                    ELSE {"framing_box", "addstr", "getch"})
              /\ i = 2 => s[i].op = "clear"
        /\ pc # "error" =>
              IsPrefix(Written(Writes), TextOfPages(wrapped_text))
        /\ (Len(s) > 0 /\ s[Len(s)].op \in {"addch", "getch"}) =>
              Written(Writes) = TextOfPages(SubSeq(wrapped_text, 1, Revealed))

\* a call on a box with an end indicator is done with two pages and a code
\* that was ignored
C17_Witness ==
    /\ pc = "done"
    /\ self.end_indicator_char # ""
    /\ Len(wrapped_text) >= 2
    /\ Count("addstr") >= 2
    /\ Count("addch") = 2
    /\ \E i \in Ops("getch") : Ignored(i)

Cell(row, col, s) == [y |-> row, x |-> col, s |-> s]

\* the units of word k of a line and where the claim puts them: the word
\* in word_by_word, its characters one column apart in char_by_char
UnitsOfWord(words, k, row) ==
    LET col == self.text_pos_x + SumLen(SubSeq(words, 1, k - 1))
    IN  IF args.method = "char_by_char"
        THEN [i \in 1..Len(words[k]) |-> Cell(row, col + (i - 1), <<words[k][i]>>)]
        ELSE <<Cell(row, col, words[k])>>

RECURSIVE UnitsOfLine(_, _, _)
UnitsOfLine(words, k, row) ==
    IF k > Len(words) THEN <<>>
    ELSE UnitsOfWord(words, k, row) \o UnitsOfLine(words, k + 1, row)

RECURSIVE UnitsOfPage(_, _)
\* the units of the lines of a page from line l on
UnitsOfPage(page, l) ==
    IF l > Len(page) THEN <<>>
    ELSE UnitsOfLine(Words(page[l]), 1, self.text_pos_y + (l - 1))
         \o UnitsOfPage(page, l + 1)

\* the writes of text since the window was last cleared, as cells
CellsOnPage ==
    LET writes == SelectSeq(SubSeq(log, LastClear, Len(log)),
                            LAMBDA e : e.op = "addstr")
    IN  [i \in 1..Len(writes) |-> Cell(writes[i].y, writes[i].x, writes[i].s)]

\* C18: the text written since the last clear is, unit by unit, the start
\* of the units of the page being shown, each at the row of its line and at
\* the column text_pos_x plus the lengths plus one of the words before it on
\* its line (plus its index in the word for a character); and no two units
\* written on one row share a cell.
C18_UnitPositions ==
    Count("clear") >= 1 =>
       LET cells == CellsOnPage
       IN  /\ IsPrefix(cells, UnitsOfPage(wrapped_text[Count("clear")], 1))
           /\ \A i, j \in 1..Len(cells) :
                 (i < j /\ cells[i].y = cells[j].y)
                    => cells[i].x + Len(cells[i].s) <= cells[j].x

\* char_by_char is done with a page on which a second word was written on
\* the row of a first one, one column left free between them
C18_Witness ==
    /\ args.method = "char_by_char"
    /\ pc = "done"
    /\ \E i, j \in 1..Len(CellsOnPage) :
          /\ i < j
          /\ CellsOnPage[i].y = CellsOnPage[j].y
          /\ CellsOnPage[j].x = CellsOnPage[i].x + 2

RECURSIVE Slept(_)
\* the time slept over a sequence of calls
Slept(events) ==
    IF events = <<>> THEN 0
    ELSE (IF Head(events).op = "sleep" THEN Head(events).n ELSE 0)
         + Slept(Tail(events))

\* the pages that were written to their end
PagesWritten == IF pc \in {"page", "unit"} THEN p - 1 ELSE p

WordsWritten == Len(WordsOf(Join(SubSeq(wrapped_text, 1, PagesWritten))))

Downtime(text) == SelectSeq(text, LAMBDA c : c \in self.downtime_chars)

\* the sleeps that do not come right after a write
WordSleeps == {i \in Ops("sleep") : log[i - 1].op # "addstr"}

\* C19: in char_by_char every character written is followed at once by a
\* sleep of downtime_chars_delay plus a jitter when it is a downtime
\* character and of delay plus a jitter when it is not, the jitter within
\* random_delay; every other sleep comes after the callback of the last
\* character of a word and lasts delay exactly; there is one of these for
\* each word of the pages written.  With random_delay (0, 0) the time slept
\* on a page that is written is delay times its characters that are not
\* downtime characters, plus downtime_chars_delay times those that are, plus
\* delay times its words.
C19_CharDelays ==
    (args.method = "char_by_char") =>
       /\ \A i \in Ops("addstr") :
             /\ i < Len(log) /\ log[i + 1].op = "sleep"
             /\ (log[i + 1].n - (IF log[i].s[1] \in self.downtime_chars
                                 THEN self.downtime_chars_delay
                                 ELSE args.delay)) \in Jitter(args.random_delay)
       /\ \A i \in WordSleeps :
             /\ log[i].n = args.delay
             /\ i > 3 /\ log[i - 1].op = "callback" /\ log[i - 2].op = "sleep"
             /\ log[i - 3].op = "addstr"
             /\ log[i - 3].s = <<Last(log[i - 3].word)>>
       /\ pc # "unit" => Cardinality(WordSleeps) = WordsWritten
       /\ (args.random_delay = <<0, 0>> /\ pc \notin {"page", "unit"}) =>
             Slept(SubSeq(log, LastClear, Len(log)))
               = args.delay * (Len(PageText(Page)) - Len(Downtime(PageText(Page))))
                 + self.downtime_chars_delay * Len(Downtime(PageText(Page)))
                 + args.delay * Len(WordsOf(Page))

\* char_by_char with a jitter is done: two characters that are not downtime
\* characters were followed by sleeps that differ, and a downtime character
\* was written
C19_Witness ==
    /\ args.method = "char_by_char"
    /\ args.random_delay # <<0, 0>>
    /\ pc = "done"
    /\ \E i, j \in Ops("addstr") :
          /\ log[i].s[1] \notin self.downtime_chars
          /\ log[j].s[1] \notin self.downtime_chars
          /\ log[i + 1].n # log[j + 1].n
    /\ \E i \in Ops("addstr") : log[i].s[1] \in self.downtime_chars

\* C20: in word_by_word every word written is followed at once by a sleep
\* of delay plus a jitter within random_delay, whatever its characters, and
\* nothing else is slept: every sleep comes right after the write of a word.
C20_WordDelays ==
    (args.method = "word_by_word") =>
       /\ \A i \in Ops("addstr") :
             /\ i < Len(log) /\ log[i + 1].op = "sleep"
             /\ (log[i + 1].n - args.delay) \in Jitter(args.random_delay)
       /\ \A i \in Ops("sleep") : i > 1 /\ log[i - 1].op = "addstr"
       /\ Count("sleep") = Count("addstr")

\* word_by_word with a jitter is done: a word that ends in a downtime
\* character and another word were written, followed by sleeps that differ
C20_Witness ==
    /\ args.method = "word_by_word"
    /\ args.random_delay # <<0, 0>>
    /\ pc = "done"
    /\ \E i, j \in Ops("addstr") :
          /\ log[i].s # <<>> /\ Last(log[i].s) \in self.downtime_chars
          /\ log[j].s # <<>> /\ Last(log[j].s) \notin self.downtime_chars
          /\ log[i + 1].n # log[j + 1].n

Returned == pc \in {"done", "exited"}

\* C21 (as claimed): when every wait gets an accepted code in the end, a
\* call that was made returns unless an interrupt code is read; when it has
\* returned every page was cleared for once and the text written is the
\* words of the pages in order; and a step taken from a wait is the read of
\* one code, which, when the code is neither accepted nor an interrupt
\* code, leaves the call at the same wait of the same page.
C21_ReturnsWhenConfirmed ==
    /\ Called ~> (Returned \/ pc = "interrupted")
    /\ [](Returned =>
             /\ Count("clear") = Len(wrapped_text)
             /\ Written(Writes) = TextOfPages(wrapped_text))
    /\ [][pc = "getkey" =>
             /\ log' = Append(log, log'[Len(log')])
             /\ log'[Len(log')].op = "getch"
             /\ (log'[Len(log')].n \notin
                    (self.confirm_dialog_key \cup self.panic_key))
                  => (pc' = "getkey" /\ p' = p)]_vars

====
